---- MODULE Spec2Model ----
(***************************************************************************)
(* A model of src/html2pdf.py: the handlers of MedicalRecipeEditor and     *)
(* PDFPreviewWidget, the layout pass of create_overlay, merge_pdfs and the *)
(* debounced preview.                                                      *)
(*                                                                         *)
(* Units.  Vertical positions are PDF points (integers).  Font sizes are   *)
(* tenths of a point (DEFAULT_FONT_SIZE 9 -> 90, adjusted size 8.1 -> 81). *)
(* Glyph widths are tenths of an em, so a measured string width and every  *)
(* horizontal position are in hundredths of a point.                       *)
(* A word is modelled by its number of characters.                         *)
(***************************************************************************)
EXTENDS Integers, Sequences, FiniteSets, TLC

VARIABLES
    template_pdf_path,  \* MedicalRecipeEditor.template_pdf_path: None or a path
    working_area,       \* MedicalRecipeEditor.working_area: NoArea or [x, y, width, height]
    field_styles,       \* MedicalRecipeEditor.field_styles: key -> style
    texts,              \* the five QTextEdit bodies: key -> sequence of lines (a line: sequence of words)
    preview_timer,      \* MedicalRecipeEditor.preview_timer: [active, remaining]
    pv,                 \* the PDFPreviewWidget: its fields, under their names
    files,              \* the files at the paths the save dialog offers
    quiet,              \* milliseconds since the last edit or format change
    regens,             \* runs of _do_update_preview since the last edit or format change
    burst,              \* update_preview calls the running timer has absorbed
    last,               \* the last handler that ran and what it did
    lay,                \* a running create_overlay call: its locals, canvas and output
    mrg,                \* a running merge_pdfs call: its locals and output
    db,                 \* the tables of entries.db, as an EntryDatabase reads and writes them
    journal             \* the add_entry, update_entry and delete_entry calls made: id -> entry

editorVars ==
    <<template_pdf_path, working_area, field_styles, texts, preview_timer, pv,
      files, quiet, regens, burst, last>>

entryVars == <<db, journal>>

vars == <<editorVars, lay, mrg, entryVars>>

-----------------------------------------------------------------------------
(* Bounds of the model *)

MaxWords == 3
ShortWord == 1
LongWord == 6
NarrowWidth == 30
MidWidth == 60
WideWidth == 320
TinyHeight == 6
MaxFitLines == 8
TallHeight == 400
PageHeight == 800
PageWidth == 400
SmallPageHeight == 400
SmallPageWidth == 200
MaxBgPages == 3
MaxOvPages == 3
MaxBurst == 3
MaxLayers == 2
MaxEntries == 3
ShortDragY == 150
TickMs == 250
ViewWidth == 440
ViewHeight == 840
WideViewWidth == 640
NavHeight == 50
LayoutMargin == 10
PressX == 30
PressY == 40
SmallDrag == 5
LongDragX == 200
LongDragY == 300
AreaTop == 20
AreaLeft == 15

(* Program constants *)

margin == 10
line_height == 14
DEFAULT_FONT_SIZE == 90
MinSelection == 10
DebounceMs == 500

adjusted_size == (DEFAULT_FONT_SIZE * 9) \div 10

\* Python's None, where a record would be / where a path would be
None == [none |-> TRUE]

NoArea == None

NoPath == "None"

-----------------------------------------------------------------------------
(* Documents *)

TemplatePaths == {"a.pdf", "b.pdf", "bad.pdf"}

\* The PDF files the operator can pick as template: a one-page document, a
\* two-page document of a smaller page size, and a file that is no readable PDF.
Docs ==
    [p \in TemplatePaths |->
        CASE p = "a.pdf" ->
                [readable |-> TRUE,
                 pages |-> << [width |-> PageWidth, height |-> PageHeight] >>]
          [] p = "b.pdf" ->
                [readable |-> TRUE,
                 pages |-> << [width |-> SmallPageWidth, height |-> SmallPageHeight],
                              [width |-> SmallPageWidth, height |-> SmallPageHeight] >>]
          [] OTHER -> [readable |-> FALSE, pages |-> <<>>]]

\* the document a reader finds at a path: the file the operator has there,
\* unless a generation has written over it
Stored(path) ==
    IF path \in DOMAIN files /\ files[path].kind = "pdf"
    THEN [readable |-> TRUE, pages |-> files[path].pages]
    ELSE IF path \in DOMAIN files /\ files[path].kind = "partial"
    THEN [readable |-> FALSE, pages |-> <<>>]
    ELSE Docs[path]

\* create_overlay: page.rect.height of page 0 of the template
PdfHeight(path) == Stored(path).pages[1].height

\* PdfReader(path).pages: fresh page objects, nothing merged onto them
\* a page object: its size, the template page it shows, the overlay pages merged onto it
\* a page of a document this program wrote comes with what was merged onto it
ReaderPages(doc, path) ==
    [i \in 1..Len(doc.pages) |->
        IF "ov" \in DOMAIN doc.pages[i]
        THEN doc.pages[i]
        ELSE [width |-> doc.pages[i].width, height |-> doc.pages[i].height,
              bg |-> [path |-> path, index |-> i - 1], ov |-> <<>>]]

\* page.merge_page(overlay_page): the overlay is painted over what the page holds
merge_page(page, overlay_page) == [page EXCEPT !.ov = Append(@, overlay_page)]

\* no EntryDatabase has been constructed
NoDatabase == [open |-> FALSE]

NoJournal == <<>>

\* the elements of a sequence
Range(s) == {s[i] : i \in 1..Len(s)}

Max(a, b) == IF a >= b THEN a ELSE b

Min(a, b) == IF a <= b THEN a ELSE b

-----------------------------------------------------------------------------
(* merge_pdfs *)

MergeIdle == [pc |-> "idle"]

\* the locals of merge_pdfs once both readers and the writer exist
MergeOpened(doc, path, overlay_pages) ==
    LET num_pages == Max(Len(doc.pages), Len(overlay_pages))
    IN  [pc |-> IF num_pages > 0 THEN "loop" ELSE "write",
         doc |-> doc, template_path |-> path,
         template_pages |-> ReaderPages(doc, path),
         overlay_pages |-> overlay_pages,
         num_pages |-> num_pages,
         i |-> 0, output |-> <<>>, io_error |-> FALSE]

ReusedFirstTemplatePage(m) == [own |-> FALSE, page |-> m.template_pages[1]]

\* PdfReader(template_path).pages[0]: page 0 of a reader of its own, so an object
\* that template_pdf.pages does not hold
ExtraTemplatePage(m) == [own |-> TRUE, page |-> ReaderPages(m.doc, m.template_path)[1]]

\* one iteration of the loop over range(num_pages)
MergeIter(m) ==
    LET i == m.i
        fromTemplate == i < Len(m.template_pages)
    IN  IF ~fromTemplate /\ Len(m.doc.pages) = 0
        THEN [m EXCEPT !.pc = "failed"]        \* pages[0] of an empty document: IndexError
        ELSE LET extra == ExtraTemplatePage(m)
                 template_page == IF fromTemplate THEN m.template_pages[i + 1] ELSE extra.page
                 merged == IF i < Len(m.overlay_pages)
                           THEN merge_page(template_page, m.overlay_pages[i + 1])
                           ELSE template_page
             IN  [m EXCEPT
                    \* merge_page changes the page object in place
                    !.template_pages =
                        IF fromTemplate THEN [@ EXCEPT ![i + 1] = merged]
                        ELSE IF ~extra.own THEN [@ EXCEPT ![1] = merged]
                        ELSE @,
                    !.output = Append(@, merged),
                    !.i = i + 1,
                    !.pc = IF i + 1 < m.num_pages THEN "loop" ELSE "write"]

RECURSIVE MergeLoop(_)
\* the whole loop
MergeLoop(m) == IF m.pc = "loop" THEN MergeLoop(MergeIter(m)) ELSE m

\* the document output.write leaves at output_path
WrittenPdf(m) == [kind |-> "pdf", pages |-> m.output]

\* what open(output_path, 'wb') leaves when the write does not finish
PartialFile == [kind |-> "partial", pages |-> <<>>]

Absent == [kind |-> "absent", pages |-> <<>>]

SavePaths == {"out.pdf"}

\* the paths the save dialog can return: any file, a template included
StorePaths == SavePaths \cup TemplatePaths

\* nothing written yet
NoFiles == [p \in StorePaths |-> Absent]

-----------------------------------------------------------------------------
(* The state after construction *)

\* QTimer, single shot, not started
TimerIdle == [active |-> FALSE, remaining |-> 0]

\* PDFPreviewWidget.__init__
PreviewInit ==
    [pdf_document |-> None, template_pdf_path |-> NoPath, current_page |-> 0,
     pixmap |-> None, scale_factor |-> [num |-> 1, den |-> 1],
     selection_rect |-> None, start_point |-> None, end_point |-> None,
     is_selecting |-> FALSE, pdf_rect |-> None,
     view |-> [width |-> ViewWidth, height |-> ViewHeight]]

\* the text fields as initUI leaves them: empty
BlankTexts ==
    [k \in {"diagnostico", "plan_tratamiento", "rutina_am", "rutina_pm", "recomendacion"} |->
        << <<>> >>]

NoEvent == [op |-> "none"]

LayoutIdle == [pc |-> "idle"]


-----------------------------------------------------------------------------
(* Styles *)

LabelKeys ==
    {"fecha_label", "paciente_label", "edad_label", "biotipo_label",
     "fototipo_label", "envejecimiento_label", "diagnostico_label",
     "plan_tratamiento_label", "rutina_am_label", "rutina_pm_label",
     "recomendacion_label", "proxima_cita_label"}

TextKeys == {"diagnostico", "plan_tratamiento", "rutina_am", "rutina_pm", "recomendacion"}

\* the keys of the values drawn next to or under the labels
ContentKeys ==
    {"fecha", "paciente", "edad", "biotipo", "fototipo", "envejecimiento", "proxima_cita"}
        \cup TextKeys

\* initUI: the label styles stored at construction (size DEFAULT_FONT_SIZE, bold)
InitialFieldStyles ==
    [k \in LabelKeys |->
        [font |-> "Helvetica", size |-> DEFAULT_FONT_SIZE, bold |-> TRUE,
         italic |-> FALSE, underline |-> FALSE]]

\* get_field_style: the stored style, else the role default (labels bold)
get_field_style(styles, field_name) ==
    IF field_name \in DOMAIN styles
    THEN styles[field_name]
    ELSE [font |-> "Helvetica", size |-> adjusted_size,
          bold |-> (field_name \in LabelKeys),
          italic |-> FALSE, underline |-> FALSE]

standard_fonts == {"Helvetica", "Times-Roman", "Courier", "Symbol", "ZapfDingbats"}

BaseFamilies == {"Helvetica", "Times-Roman", "Courier"}

\* The font names the canvas accepts: setFont and stringWidth raise on any other.
Standard14 ==
    {"Helvetica", "Helvetica-Bold", "Helvetica-Oblique", "Helvetica-BoldOblique",
     "Times-Roman", "Times-Bold", "Times-Italic", "Times-BoldItalic",
     "Courier", "Courier-Bold", "Courier-Oblique", "Courier-BoldOblique",
     "Symbol", "ZapfDingbats"}

ValidFont(name) == name \in Standard14

\* Width of one glyph in tenths of an em (an average for the proportional faces).
GlyphWidth(name) ==
    CASE name \in {"Courier", "Courier-Bold", "Courier-Oblique", "Courier-BoldOblique"} -> 6
      [] name \in {"Helvetica-Bold", "Helvetica-BoldOblique", "Times-Bold", "Times-BoldItalic"} -> 6
      [] name \in {"Times-Roman", "Times-Italic"} -> 4
      [] OTHER -> 5

\* c.stringWidth(text, font_name, font_size) for a text of nchars characters
stringWidth(nchars, name, size) == nchars * GlyphWidth(name) * size

\* draw_wrapped_text: the font name on entry (fallback, then bold, then italic)
WrapFontName(style) ==
    LET f0 == IF style.font \in standard_fonts THEN style.font ELSE "Helvetica"
        f1 == IF style.bold /\ f0 \in BaseFamilies THEN f0 \o "-Bold" ELSE f0
        f2 == IF style.italic /\ f1 \in BaseFamilies
              THEN (IF f1 = "Helvetica" THEN f1 \o "-Oblique" ELSE f1 \o "-Italic")
              ELSE f1
    IN  f2

\* draw_wrapped_text: the font name set again after a page break
ReapplyFontName(style) ==
    LET f1 == IF style.bold THEN style.font \o "-Bold" ELSE style.font
        f2 == IF style.italic THEN f1 \o "-Italic" ELSE f1
        f3 == IF style.underline THEN f2 \o "-Underline" ELSE f2
    IN  f3

\* create_overlay: the font name of a key-value run
KvFontName(style) == IF style.bold THEN style.font \o "-Bold" ELSE style.font

-----------------------------------------------------------------------------
(* Geometry of a layout pass *)

Geometry(wa, ph) ==
    [x_offset |-> wa.x,
     y_offset |-> ph - wa.y - wa.height,
     work_width |-> wa.width,
     work_height |-> wa.height]

x_pos(g) == g.x_offset + margin

\* the cursor on entry: y_offset + work_height - margin
InitialY(g) == g.y_offset + g.work_height - margin

create_new_page_top_only(g) == g.y_offset + g.work_height

\* create_new_page: showPage, then the cursor is back at the top of the area
create_new_page(g) == g.y_offset + g.work_height - margin

available_width(g) == (g.work_width - 2 * margin) * 100

NeedsNewPageInclusive(g, y) == y - line_height <= g.y_offset

\* the page check before every wrapped line
NeedsNewPage(g, y) == y - line_height < g.y_offset

FitsLineIgnoringWord(g, current_width, word_width) == current_width <= available_width(g)

\* the wrap test: the word joins the current line
FitsLine(g, current_width, word_width) == current_width + word_width <= available_width(g)

-----------------------------------------------------------------------------
(* draw_wrapped_text *)

\* One drawString of draw_wrapped_text with the page check before it.
\* st: [y, page, font, line, width, draws, ok]
FlushLine(g, st, style, op) ==
    LET brk   == NeedsNewPage(g, st.y)
        y1    == IF brk THEN create_new_page(g) ELSE st.y
        page1 == IF brk THEN st.page + 1 ELSE st.page
        font1 == IF brk THEN ReapplyFontName(style) ELSE st.font
    IN  IF ~ValidFont(font1)
        THEN [st EXCEPT !.ok = FALSE, !.y = y1, !.page = page1, !.font = font1]
        ELSE [st EXCEPT
                !.y = y1 - line_height,
                !.page = page1,
                !.font = font1,
                !.draws = Append(@,
                    [page |-> page1, x |-> x_pos(g) * 100, y |-> y1,
                     words |-> st.line, label |-> "", font |-> font1,
                     size |-> style.size, kind |-> "wrap", op |-> op,
                     cursor |-> st.y, brk |-> brk])]

RECURSIVE WrapLoop(_, _, _, _, _, _)
\* the loop over the words
WrapLoop(g, st, words, i, style, op) ==
    IF ~st.ok \/ i > Len(words)
    THEN st
    ELSE LET word == words[i]
             word_width == stringWidth(word + 1, st.font, style.size)
         IN  IF FitsLine(g, st.width, word_width)
             THEN WrapLoop(g, [st EXCEPT !.line = Append(@, word), !.width = @ + word_width],
                           words, i + 1, style, op)
             ELSE LET f == FlushLine(g, st, style, op)
                  IN  WrapLoop(g,
                               IF f.ok THEN [f EXCEPT !.line = <<word>>, !.width = word_width] ELSE f,
                               words, i + 1, style, op)

HasLastLineAlways(st) == TRUE

\* "if current_line:": the last line is drawn only when it holds a word
HasLastLine(st) == st.line # <<>>

\* the return of draw_wrapped_text: the cursor, page and font it leaves, and
\* the record of the call
\* L: the layout state; the result is L with y_pos, page, font, draws, calls, ok updated
WrappedText(L, st, op, words, y_in, style, what) ==
    [L EXCEPT
        !.y_pos = st.y,
        !.page = st.page,
        !.font = st.font,
        !.draws = st.draws,
        !.ok = st.ok,
        !.calls = Append(@,
            [op |-> op, what |-> what, words |-> words, style |-> style,
             y_in |-> y_in, y_out |-> st.y, page_in |-> L.page,
             page_out |-> st.page, ok |-> st.ok])]

\* a wrap that returns after the loop over the words
SkipLastLine(g, st, style, op) == st

\* the last line, after the loop over the words
DrawLastLine(g, st, style, op) ==
    IF st.ok /\ HasLastLine(st) THEN FlushLine(g, st, style, op) ELSE st

\* draw_wrapped_text(text, y_pos, style): the state after the call
draw_wrapped_text(g, L, words, y_in, style, what) ==
    LET op    == Len(L.calls) + 1
        font0 == WrapFontName(style)
        st0   == [y |-> y_in, page |-> L.page, font |-> font0, line |-> <<>>, width |-> 0,
                  draws |-> L.draws, ok |-> ValidFont(font0)]
    IN  WrappedText(L, DrawLastLine(g, WrapLoop(g, st0, words, 1, style, op), style, op),
                    op, words, y_in, style, what)

-----------------------------------------------------------------------------
(* The key-value rows *)

\* One "label: content" row: two runs at the same y, no page check.
KvRow(g, L, styles, labelChars, label_style_name, content_style_name) ==
    LET label_style   == get_field_style(styles, label_style_name)
        content_style == get_field_style(styles, content_style_name)
        lf == KvFontName(label_style)
        cf == KvFontName(content_style)
        label_width == stringWidth(labelChars, lf, label_style.size)
        d1 == [page |-> L.page, x |-> x_pos(g) * 100, y |-> L.y_pos,
               words |-> <<>>, label |-> label_style_name, font |-> lf,
               size |-> label_style.size, kind |-> "kv_label", op |-> 0,
               cursor |-> L.y_pos, brk |-> FALSE]
        d2 == [page |-> L.page, x |-> x_pos(g) * 100 + label_width, y |-> L.y_pos,
               words |-> <<>>, label |-> content_style_name, font |-> cf,
               size |-> content_style.size, kind |-> "kv_content", op |-> 0,
               cursor |-> L.y_pos, brk |-> FALSE]
    IN  IF ~ValidFont(lf)
        THEN [L EXCEPT !.ok = FALSE, !.font = lf]
        ELSE IF ~ValidFont(cf)
        THEN [L EXCEPT !.ok = FALSE, !.font = cf, !.draws = Append(@, d1)]
        ELSE [L EXCEPT !.font = cf, !.draws = Append(Append(@, d1), d2),
                       !.y_pos = @ - line_height]

\* the `fields` list with Edad ahead of Paciente
FieldsEdadFirst ==
    << [chars |-> 6,  label |-> "edad_label", content |-> "edad"],
       [chars |-> 10, label |-> "paciente_label", content |-> "paciente"],
       [chars |-> 9,  label |-> "biotipo_label", content |-> "biotipo"],
       [chars |-> 10, label |-> "fototipo_label", content |-> "fototipo"],
       [chars |-> 25, label |-> "envejecimiento_label", content |-> "envejecimiento"] >>

\* the rows of the `fields` list: label text length, label key, content key
Fields ==
    << [chars |-> 10, label |-> "paciente_label", content |-> "paciente"],
       [chars |-> 6,  label |-> "edad_label", content |-> "edad"],
       [chars |-> 9,  label |-> "biotipo_label", content |-> "biotipo"],
       [chars |-> 10, label |-> "fototipo_label", content |-> "fototipo"],
       [chars |-> 25, label |-> "envejecimiento_label", content |-> "envejecimiento"] >>

\* the wrapped sections: the words of the label, its style key, the body's key
Sections ==
    << [label |-> <<12>>, labelKey |-> "diagnostico_label", key |-> "diagnostico"],
       [label |-> <<4, 2, 12>>, labelKey |-> "plan_tratamiento_label", key |-> "plan_tratamiento"],
       [label |-> <<6, 6, 5>>, labelKey |-> "rutina_am_label", key |-> "rutina_am"],
       [label |-> <<6, 6, 5>>, labelKey |-> "rutina_pm_label", key |-> "rutina_pm"],
       [label |-> <<13, 10, 1, 12>>, labelKey |-> "recomendacion_label", key |-> "recomendacion"] >>

\* "Próxima cita médica: dd/MM/yyyy"
ProximaCitaWords == <<7, 4, 7, 10>>

-----------------------------------------------------------------------------
(* create_overlay as a sequence of steps *)

\* the locals of create_overlay before the first draw
LayoutStart(g) ==
    [pc |-> "fecha", fi |-> 1, sec |-> 1, li |-> 1,
     y_pos |-> InitialY(g), page |-> 0, font |-> "Helvetica",
     draws |-> <<>>, calls |-> <<>>, ok |-> TRUE]

Failed(L) == [L EXCEPT !.pc = "failed"]

\* "Fecha: " and the formatted date
StepFecha(g, L, styles) ==
    LET r == KvRow(g, L, styles, 7, "fecha_label", "fecha")
    IN  IF r.ok THEN [r EXCEPT !.pc = "fields", !.fi = 1] ELSE Failed(r)

\* one iteration of the loop over `fields`
StepField(g, L, styles) ==
    LET f == Fields[L.fi]
        r == KvRow(g, L, styles, f.chars, f.label, f.content)
    IN  IF ~r.ok THEN Failed(r)
        ELSE IF L.fi < Len(Fields) THEN [r EXCEPT !.fi = L.fi + 1]
        ELSE [r EXCEPT !.pc = "label", !.sec = 1]

\* the half-line gap and the section's label
StepSectionLabel(g, L, styles) ==
    LET s == Sections[L.sec]
        r == draw_wrapped_text(g, L, s.label, L.y_pos - line_height \div 2,
                               get_field_style(styles, s.labelKey), "label")
    IN  IF r.ok THEN [r EXCEPT !.pc = "body", !.li = 1] ELSE Failed(r)

\* a body step that takes a line again when the page was turned while drawing it
StepBodyLineAgain(g, L, styles, txt) ==
    LET s    == Sections[L.sec]
        body == txt[s.key]
        line == body[L.li]
        r    == IF line # <<>>
                THEN draw_wrapped_text(g, L, line, L.y_pos, get_field_style(styles, s.key), "body")
                ELSE L
    IN  IF ~r.ok THEN Failed(r)
        ELSE IF r.page > L.page THEN r
        ELSE IF L.li < Len(body) THEN [r EXCEPT !.li = L.li + 1]
        ELSE IF L.sec < Len(Sections) THEN [r EXCEPT !.pc = "label", !.sec = L.sec + 1]
        ELSE [r EXCEPT !.pc = "proxima"]

\* one line of the section's text: drawn only when it is not blank
StepBodyLine(g, L, styles, txt) ==
    LET s    == Sections[L.sec]
        body == txt[s.key]
        line == body[L.li]
        r    == IF line # <<>>
                THEN draw_wrapped_text(g, L, line, L.y_pos, get_field_style(styles, s.key), "body")
                ELSE L
    IN  IF ~r.ok THEN Failed(r)
        ELSE IF L.li < Len(body) THEN [r EXCEPT !.li = L.li + 1]
        ELSE IF L.sec < Len(Sections) THEN [r EXCEPT !.pc = "label", !.sec = L.sec + 1]
        ELSE [r EXCEPT !.pc = "proxima"]

\* the half-line gap and the next appointment
StepProximaCita(g, L, styles) ==
    LET r == draw_wrapped_text(g, L, ProximaCitaWords, L.y_pos - line_height \div 2,
                               get_field_style(styles, "proxima_cita"), "proxima")
    IN  IF r.ok THEN [r EXCEPT !.pc = "save"] ELSE Failed(r)

\* c.save()
StepSave(L) == [L EXCEPT !.pc = "done"]

\* the geometry of the pass: the working area and the height of page 0 of the template
G == Geometry(working_area, PdfHeight(template_pdf_path))

DrawFecha ==
    /\ lay.pc = "fecha"
    /\ lay' = StepFecha(G, lay, field_styles)
    /\ UNCHANGED <<editorVars, mrg, entryVars>>

DrawField ==
    /\ lay.pc = "fields"
    /\ lay' = StepField(G, lay, field_styles)
    /\ UNCHANGED <<editorVars, mrg, entryVars>>

DrawSectionLabel ==
    /\ lay.pc = "label"
    /\ lay' = StepSectionLabel(G, lay, field_styles)
    /\ UNCHANGED <<editorVars, mrg, entryVars>>

DrawBodyLine ==
    /\ lay.pc = "body"
    /\ lay' = StepBodyLine(G, lay, field_styles, texts)
    /\ UNCHANGED <<editorVars, mrg, entryVars>>

DrawProximaCita ==
    /\ lay.pc = "proxima"
    /\ lay' = StepProximaCita(G, lay, field_styles)
    /\ UNCHANGED <<editorVars, mrg, entryVars>>

SaveOverlay ==
    /\ lay.pc = "save"
    /\ lay' = StepSave(lay)
    /\ UNCHANGED <<editorVars, mrg, entryVars>>

-----------------------------------------------------------------------------
(* Inputs of a layout pass *)

WordLens == {ShortWord, LongWord}

RECURSIVE SeqsUpTo(_, _)
SeqsUpTo(S, n) ==
    IF n = 0 THEN {<<>>}
    ELSE LET shorter == SeqsUpTo(S, n - 1)
         IN  shorter \cup {Append(s, x) : s \in shorter, x \in S}

Lines == SeqsUpTo(WordLens, MaxWords)

\* a text: one line, or a line, a blank line and the line again
Bodies == {<<l>> : l \in Lines} \cup {<<l, <<>>, l>> : l \in Lines}

OtherBodies == {<< <<>> >>, << <<ShortWord>> >>}

WorkHeights ==
    {TinyHeight, TallHeight} \cup {margin + n * line_height : n \in 1..MaxFitLines}

WorkWidths == {NarrowWidth, MidWidth, WideWidth}

\* the families the font box offers, and one typed into it that reportlab does not know
StyleFonts == {"Helvetica", "Times-Roman", "Courier", "Arial"}

OverrideKeys == {"diagnostico", "paciente"}

Styles ==
    [font : StyleFonts, size : {adjusted_size}, bold : BOOLEAN,
     italic : BOOLEAN, underline : BOOLEAN]

TextsOf(diag, other) == [k \in TextKeys |-> IF k = "diagnostico" THEN diag ELSE other]

\* the points of the view the mouse is pressed at and dragged to
PressPoints == {[x |-> PressX, y |-> PressY]}

MovePoints ==
    {[x |-> PressX + SmallDrag, y |-> PressY + SmallDrag],
     [x |-> PressX + LongDragX - 1, y |-> PressY + LongDragY - 1]}

\* a drag that is wide and not high enough
FlatMovePoints == {[x |-> PressX + LongDragX - 1, y |-> PressY + SmallDrag]}

\* the texts of the Diagnóstico field in the editor
FormBodies == {<< <<>> >>, << <<LongWord, ShortWord>> >>}

\* the fields whose format controls are used in the editor
FormatKeys == {"diagnostico"}

\* default styles, every geometry, every text
InitGeometry ==
    /\ \E h \in WorkHeights, w \in WorkWidths :
          working_area = [x |-> AreaLeft, y |-> AreaTop, width |-> w, height |-> h]
    /\ field_styles = InitialFieldStyles
    /\ \E d \in Bodies, o \in OtherBodies : texts = TextsOf(d, o)

\* one field formatted by the user, a short and a tall area
InitStyled ==
    /\ \E h \in {margin + 2 * line_height, TallHeight} :
          working_area = [x |-> AreaLeft, y |-> AreaTop, width |-> MidWidth, height |-> h]
    /\ \E k \in OverrideKeys, s \in Styles :
          field_styles = [x \in LabelKeys \cup {k} |->
                            IF x = k THEN s ELSE InitialFieldStyles[x]]
    /\ texts = TextsOf(<< <<LongWord, LongWord, ShortWord>> >>, << <<>> >>)

LayoutInit ==
    /\ template_pdf_path = "a.pdf"
    /\ files = NoFiles
    /\ InitGeometry \/ InitStyled
    /\ lay = LayoutStart(Geometry(working_area, PdfHeight(template_pdf_path)))
    /\ preview_timer = TimerIdle
    /\ pv = PreviewInit
    /\ quiet = 0
    /\ regens = 0
    /\ burst = 0
    /\ last = NoEvent
    /\ db = NoDatabase
    /\ journal = NoJournal
    /\ mrg = MergeIdle

LayoutNext ==
    \/ DrawFecha
    \/ DrawField
    \/ DrawSectionLabel
    \/ DrawBodyLine
    \/ DrawProximaCita
    \/ SaveOverlay

LayoutSpec == LayoutInit /\ [][LayoutNext]_vars

\* create_overlay runs on the one thread of the event loop and is not interrupted:
\* a pass that can take a step takes it
\* the passes followed to their end: low and narrow areas, a fresh editor and
\* one with a family typed into the font box
LayoutRunInit ==
    /\ template_pdf_path = "a.pdf"
    /\ files = NoFiles
    /\ \E h \in {TinyHeight, margin + line_height, TallHeight}, w \in {NarrowWidth, MidWidth} :
          working_area = [x |-> AreaLeft, y |-> AreaTop, width |-> w, height |-> h]
    /\ \E f \in {"Helvetica", "Arial"} :
          field_styles = [x \in LabelKeys \cup {"diagnostico"} |->
                            IF x = "diagnostico"
                            THEN [get_field_style(InitialFieldStyles, x) EXCEPT !.font = f]
                            ELSE InitialFieldStyles[x]]
    /\ \E d \in {<< <<LongWord>> >>, << <<LongWord, ShortWord, LongWord>>, <<>>, <<ShortWord>> >>} :
          texts = TextsOf(d, << <<>> >>)
    /\ lay = LayoutStart(Geometry(working_area, PdfHeight(template_pdf_path)))
    /\ preview_timer = TimerIdle
    /\ pv = PreviewInit
    /\ quiet = 0
    /\ regens = 0
    /\ burst = 0
    /\ last = NoEvent
    /\ db = NoDatabase
    /\ journal = NoJournal
    /\ mrg = MergeIdle

LayoutRunSpec == LayoutRunInit /\ [][LayoutNext]_vars /\ WF_vars(LayoutNext)

-----------------------------------------------------------------------------
(* A whole layout pass *)

\* the step create_overlay is at
LayoutStep(g, L, styles, txt) ==
    CASE L.pc = "fecha"   -> StepFecha(g, L, styles)
      [] L.pc = "fields"  -> StepField(g, L, styles)
      [] L.pc = "label"   -> StepSectionLabel(g, L, styles)
      [] L.pc = "body"    -> StepBodyLine(g, L, styles, txt)
      [] L.pc = "proxima" -> StepProximaCita(g, L, styles)
      [] L.pc = "save"    -> StepSave(L)
      [] OTHER            -> L

RECURSIVE RunLayout(_, _, _, _)
RunLayout(g, L, styles, txt) ==
    IF L.pc \in {"done", "failed"} THEN L
    ELSE RunLayout(g, LayoutStep(g, L, styles, txt), styles, txt)

\* bool(QRect): a rectangle that is not null
RectTruthy(r) == r # None /\ ~(r.width = 0 /\ r.height = 0)

\* c.save() and the return of create_overlay: an exception when a font was
\* refused, else the overlay document, one overlay page per canvas page
OverlayOf(L, wa, styles, txt) ==
    IF L.pc = "failed"
    THEN [result |-> "raised", layout |-> TRUE, pages |-> <<>>]
    ELSE [result |-> "ok", layout |-> TRUE,
          pages |-> [i \in 1..(L.page + 1) |->
                       [gen |-> [texts |-> txt, styles |-> styles, area |-> wa],
                        index |-> i - 1]]]

\* the canvas part of create_overlay, from the geometry on
OverlayFor(g, wa, styles, txt) ==
    OverlayOf(RunLayout(g, LayoutStart(g), styles, txt), wa, styles, txt)

\* MedicalRecipeEditor.create_overlay: None without a working area, an exception when
\* the template cannot be opened or has no page 0, else the layout pass
create_overlay(path, wa, styles, txt) ==
    IF ~RectTruthy(wa)
    THEN [result |-> "none", layout |-> FALSE, pages |-> <<>>]
    ELSE IF ~Stored(path).readable \/ Len(Stored(path).pages) = 0
    THEN [result |-> "raised", layout |-> FALSE, pages |-> <<>>]
    ELSE OverlayFor(Geometry(wa, PdfHeight(path)), wa, styles, txt)

\* the write at the end of merge_pdfs: the outcome and the file written
MergeResult(m, write_ok) ==
    IF m.pc = "failed" THEN [result |-> "raised", file |-> None]
    ELSE IF write_ok THEN [result |-> "ok", file |-> WrittenPdf(m)]
    ELSE [result |-> "raised", file |-> PartialFile]

\* PDFPreviewWidget.merge_pdfs as one call
merge_pdfs(template_path, overlay, write_ok) ==
    IF overlay.result # "ok" \/ ~Stored(template_path).readable
    THEN [result |-> "raised", file |-> None]       \* a PdfReader raises
    ELSE MergeResult(MergeLoop(MergeOpened(Stored(template_path), template_path,
                                           overlay.pages)), write_ok)

-----------------------------------------------------------------------------
(* generate_pdf *)

\* what a handler did: its name, the message it showed, whether it ran a layout
\* pass and a merge
Event(op, msg, layout, merged) ==
    [op |-> op, msg |-> msg, layout |-> layout, merged |-> merged]

\* the outcome of generate_pdf once merge_pdfs has returned or raised
Generated(ov, m) ==
    [event |-> Event("generate_pdf", IF m.result = "ok" THEN "saved" ELSE "error",
                     ov.layout, TRUE),
     file |-> m.file]

\* generate_pdf from the overlay on: an exception of create_overlay ends it
GenerateWith(ov, path, write_ok) ==
    IF ov.result = "raised"
    THEN [event |-> Event("generate_pdf", "error", ov.layout, FALSE), file |-> None]
    ELSE Generated(ov, merge_pdfs(path, ov, write_ok))

\* the try block of generate_pdf: the save dialog, create_overlay, merge_pdfs
\* result: the event and the content written at save_path (None: nothing written)
GenerateBody(path, wa, styles, txt, save_path, write_ok) ==
    IF save_path = ""
    THEN [event |-> Event("generate_pdf", "cancelled", FALSE, FALSE), file |-> None]
    ELSE GenerateWith(create_overlay(path, wa, styles, txt), path, write_ok)

generate_pdf_unchecked_area(path, wa, styles, txt, save_path, write_ok) ==
    IF path = NoPath
    THEN [event |-> Event("generate_pdf", "no_template", FALSE, FALSE), file |-> None]
    ELSE GenerateBody(path, wa, styles, txt, save_path, write_ok)

\* generate_pdf: the two checks, then the try block
generate_pdf(path, wa, styles, txt, save_path, write_ok) ==
    IF path = NoPath
    THEN [event |-> Event("generate_pdf", "no_template", FALSE, FALSE), file |-> None]
    ELSE IF ~RectTruthy(wa)
    THEN [event |-> Event("generate_pdf", "no_working_area", FALSE, FALSE), file |-> None]
    ELSE GenerateBody(path, wa, styles, txt, save_path, write_ok)

\* generate_pdf with one of the paths, or none, chosen in the save dialog
GeneratePdfTo(paths) ==
    \E save_path \in paths \cup {""}, write_ok \in BOOLEAN :
        \E r \in {generate_pdf(template_pdf_path, working_area, field_styles, texts,
                               save_path, write_ok)} :
            /\ last' = r.event
            /\ files' = IF r.file = None THEN files ELSE [files EXCEPT ![save_path] = r.file]
            /\ UNCHANGED <<template_pdf_path, working_area, field_styles, texts,
                           preview_timer, pv, quiet, regens, burst, lay, mrg, entryVars>>

GeneratePdf == GeneratePdfTo(SavePaths)

-----------------------------------------------------------------------------
(* The preview widget *)

\* QRect(topLeft, bottomRight): both corners belong to the rectangle
QRectOf(p1, p2) ==
    [x |-> p1.x, y |-> p1.y, width |-> p2.x - p1.x + 1, height |-> p2.y - p1.y + 1]

Right(r) == r.x + r.width - 1

Bottom(r) == r.y + r.height - 1

\* QRect.normalized(): a negative width or height is turned round
Normalized(r) ==
    LET xr == IF r.width < 0 THEN [r EXCEPT !.x = Right(r) + 1, !.width = -r.width] ELSE r
    IN  IF xr.height < 0 THEN [xr EXCEPT !.y = Bottom(xr) + 1, !.height = -xr.height] ELSE xr

Contains(r, p) == r.x <= p.x /\ p.x <= Right(r) /\ r.y <= p.y /\ p.y <= Bottom(r)

\* int(a / b) for b > 0: truncation towards zero
TruncDiv(a, b) == IF a >= 0 THEN a \div b ELSE -((-a) \div b)

\* the smallest integer not below a / b, for a >= 0 and b > 0
CeilDiv(a, b) == (a + b - 1) \div b

\* load_pdf: min(width_scale, height_scale) of page 0, as a fraction
\* view: the size of pdf_view
ScaleFor(view, page) ==
    LET wn == view.width - 40
        hn == view.height - 40
    IN  IF wn * page.height <= hn * page.width
        THEN [num |-> wn, den |-> page.width]
        ELSE [num |-> hn, den |-> page.height]

\* the size of the pixmap of a page rendered at a scale
PixmapOf(page, scale) ==
    [width |-> CeilDiv(page.width * scale.num, scale.den),
     height |-> CeilDiv(page.height * scale.num, scale.den)]

\* the pixmap centred in a widget of the size `view`
CentredRect(view, pixmap) ==
    [x |-> TruncDiv(view.width - pixmap.width, 2),
     y |-> TruncDiv(view.height - pixmap.height, 2),
     width |-> pixmap.width, height |-> pixmap.height]

\* PDFPreviewWidget.update_preview: render the current page, drop the selection
PreviewUpdated(w) ==
    IF w.pdf_document = None \/ Len(w.pdf_document.pages) <= 0
    THEN w
    ELSE LET pm == PixmapOf(w.pdf_document.pages[w.current_page + 1], w.scale_factor)
         IN  [w EXCEPT !.pixmap = pm, !.pdf_rect = CentredRect(w.view, pm),
                       !.selection_rect = None, !.start_point = None, !.end_point = None]

\* PDFPreviewWidget.load_pdf(path) of a document; doc = None: fitz.open raises
\* result: the widget and the value returned
load_pdf(w, doc) ==
    IF doc = None
    THEN [widget |-> w, loaded |-> FALSE]
    ELSE IF Len(doc.pages) > 0
    THEN [widget |-> PreviewUpdated([w EXCEPT !.pdf_document = doc, !.current_page = 0,
                                              !.scale_factor = ScaleFor(w.view, doc.pages[1])]),
          loaded |-> TRUE]
    ELSE [widget |-> [w EXCEPT !.pdf_document = doc], loaded |-> FALSE]

\* fitz.open(path) of a template file
OpenTemplate(path) ==
    IF Stored(path).readable THEN [pages |-> ReaderPages(Stored(path), path)] ELSE None

\* PDFPreviewWidget.get_selection_rect: the selection in document units
get_selection_rect(w) ==
    IF RectTruthy(w.selection_rect) /\ RectTruthy(w.pdf_rect)
    THEN LET rel_x == w.selection_rect.x - w.pdf_rect.x
             rel_y == w.selection_rect.y - w.pdf_rect.y
             s == w.scale_factor
         IN  [x |-> TruncDiv(rel_x * s.den, s.num),
              y |-> TruncDiv(rel_y * s.den, s.num),
              width |-> TruncDiv(w.selection_rect.width * s.den, s.num),
              height |-> TruncDiv(w.selection_rect.height * s.den, s.num)]
    ELSE None

-----------------------------------------------------------------------------
(* The handlers of the editor *)

\* select_template: the path is kept even when the document cannot be loaded
SelectTemplate ==
    \E file_path \in TemplatePaths :
        LET r == load_pdf([pv EXCEPT !.template_pdf_path = file_path], OpenTemplate(file_path))
        IN  /\ template_pdf_path' = file_path
            /\ pv' = r.widget
            /\ last' = Event("select_template", IF r.loaded THEN "loaded" ELSE "load_failed",
                             FALSE, FALSE)
            /\ UNCHANGED <<working_area, field_styles, texts, preview_timer, files,
                           quiet, regens, burst, lay, mrg, entryVars>>

\* _mouse_press with the left button
MousePress ==
    \E p \in PressPoints :
        /\ pv' = IF pv.pdf_rect # None /\ Contains(pv.pdf_rect, p)
                 THEN [pv EXCEPT !.is_selecting = TRUE, !.start_point = p, !.end_point = p,
                                 !.selection_rect = QRectOf(p, p)]
                 ELSE pv
        /\ last' = Event("_mouse_press", "", FALSE, FALSE)
        /\ UNCHANGED <<template_pdf_path, working_area, field_styles, texts, preview_timer,
                       files, quiet, regens, burst, lay, mrg, entryVars>>

\* _mouse_move to one of the points, while is_selecting is set; without a
\* start point QRect(None, end_point) raises a TypeError after end_point is set
MouseMoveTo(points) ==
    \E p \in points :
        /\ pv.is_selecting /\ pv.pdf_rect # None
        /\ LET x == Max(pv.pdf_rect.x, Min(p.x, Right(pv.pdf_rect)))
               y == Max(pv.pdf_rect.y, Min(p.y, Bottom(pv.pdf_rect)))
               e == [x |-> x, y |-> y]
           IN  pv' = IF pv.start_point # None
                     THEN [pv EXCEPT !.end_point = e,
                                     !.selection_rect = Normalized(QRectOf(pv.start_point, e))]
                     ELSE [pv EXCEPT !.end_point = e]
        /\ last' = Event("_mouse_move", IF pv.start_point # None THEN "" ELSE "TypeError",
                         FALSE, FALSE)
        /\ UNCHANGED <<template_pdf_path, working_area, field_styles, texts, preview_timer,
                       files, quiet, regens, burst, lay, mrg, entryVars>>

MouseMove == MouseMoveTo(MovePoints)

MouseMoveFlat == MouseMoveTo(FlatMovePoints)

\* a release test that looks at the width alone
TooSmallWidthOnly(r) == r.width < MinSelection

\* the size test of _mouse_release
TooSmall(r) == r.width < MinSelection \/ r.height < MinSelection

\* _mouse_release with the left button: a selection under 10 pixels is dropped
MouseRelease ==
    /\ pv.is_selecting
    /\ pv' = IF pv.start_point # None /\ pv.end_point # None
             THEN LET r == Normalized(QRectOf(pv.start_point, pv.end_point))
                  IN  [pv EXCEPT !.is_selecting = FALSE,
                                 !.selection_rect =
                                    IF TooSmall(r) THEN None ELSE r]
             ELSE [pv EXCEPT !.is_selecting = FALSE]
    /\ last' = Event("_mouse_release", "", FALSE, FALSE)
    /\ UNCHANGED <<template_pdf_path, working_area, field_styles, texts, preview_timer,
                   files, quiet, regens, burst, lay, mrg, entryVars>>

\* a set_working_area that forgets the area when nothing is selected
set_working_area_or_clear(selected_rect, area) ==
    IF RectTruthy(selected_rect) THEN selected_rect ELSE NoArea

\* set_working_area: the area after the call
set_working_area(selected_rect, area) ==
    IF RectTruthy(selected_rect) THEN selected_rect ELSE area

\* set_working_area
SetWorkingArea ==
    LET selected_rect == get_selection_rect(pv)
    IN  /\ working_area' = set_working_area(selected_rect, working_area)
        /\ last' = Event("set_working_area",
                         IF RectTruthy(selected_rect) THEN "defined" ELSE "no_selection",
                         FALSE, FALSE)
        /\ UNCHANGED <<template_pdf_path, field_styles, texts, preview_timer, pv, files,
                       quiet, regens, burst, lay, mrg, entryVars>>

\* the editor after construction
EditorInit ==
    /\ template_pdf_path = NoPath
    /\ working_area = NoArea
    /\ field_styles = InitialFieldStyles
    /\ preview_timer = TimerIdle
    /\ pv = PreviewInit
    /\ files = NoFiles
    /\ quiet = 0
    /\ regens = 0
    /\ burst = 0
    /\ last = NoEvent
    /\ db = NoDatabase
    /\ journal = NoJournal
    /\ lay = LayoutIdle
    /\ mrg = MergeIdle

\* the texts the operator has typed
Init ==
    /\ EditorInit
    /\ \E d \in FormBodies : texts = TextsOf(d, << <<>> >>)

Next ==
    \/ SelectTemplate
    \/ MousePress
    \/ MouseMove
    \/ MouseRelease
    \/ SetWorkingArea
    \/ GeneratePdf

Spec == Init /\ [][Next]_vars

-----------------------------------------------------------------------------
(* Template selection, mouse selection and page navigation *)

\* prev_page
PrevPage ==
    /\ pv' = IF pv.current_page > 0
             THEN PreviewUpdated([pv EXCEPT !.current_page = @ - 1])
             ELSE pv
    /\ last' = Event("prev_page", "", FALSE, FALSE)
    /\ UNCHANGED <<template_pdf_path, working_area, field_styles, texts, preview_timer,
                   files, quiet, regens, burst, lay, mrg, entryVars>>

\* a next_page that tests current_page against the page count itself
NextPagePastEnd ==
    /\ pv' = IF pv.pdf_document # None /\ pv.current_page < Len(pv.pdf_document.pages)
             THEN [pv EXCEPT !.current_page = @ + 1]
             ELSE pv
    /\ last' = Event("next_page", "", FALSE, FALSE)
    /\ UNCHANGED <<template_pdf_path, working_area, field_styles, texts, preview_timer,
                   files, quiet, regens, burst, lay, mrg, entryVars>>

\* next_page
NextPage ==
    /\ pv' = IF pv.pdf_document # None /\ pv.current_page < Len(pv.pdf_document.pages) - 1
             THEN PreviewUpdated([pv EXCEPT !.current_page = @ + 1])
             ELSE pv
    /\ last' = Event("next_page", "", FALSE, FALSE)
    /\ UNCHANGED <<template_pdf_path, working_area, field_styles, texts, preview_timer,
                   files, quiet, regens, burst, lay, mrg, entryVars>>

\* the sizes the window manager gives pdf_view
ViewSizes ==
    {[width |-> ViewWidth, height |-> ViewHeight],
     [width |-> WideViewWidth, height |-> ViewHeight]}

\* the size of the PDFPreviewWidget around a pdf_view: the margins of the
\* QVBoxLayout and the navigation panel above the view
WidgetSize(view) ==
    [width |-> view.width + 2 * LayoutMargin,
     height |-> view.height + NavHeight + 2 * LayoutMargin]

\* resizeEvent: the window is resized, the layout gives pdf_view its new size and
\* pdf_rect is computed again from the size of the whole widget
ResizeEvent ==
    \E v \in ViewSizes :
        /\ v # pv.view
        /\ pv' = IF pv.pixmap # None
                 THEN [pv EXCEPT !.view = v, !.pdf_rect = CentredRect(WidgetSize(v), pv.pixmap)]
                 ELSE [pv EXCEPT !.view = v]
        /\ last' = Event("resizeEvent", "", FALSE, FALSE)
        /\ UNCHANGED <<template_pdf_path, working_area, field_styles, texts, preview_timer,
                       files, quiet, regens, burst, lay, mrg, entryVars>>

\* _paint_pdf: pdf_rect is computed again from the size of pdf_view
PaintPdf ==
    /\ pv.pixmap # None
    /\ pv' = [pv EXCEPT !.pdf_rect = CentredRect(pv.view, pv.pixmap)]
    /\ last' = Event("_paint_pdf", "", FALSE, FALSE)
    /\ UNCHANGED <<template_pdf_path, working_area, field_styles, texts, preview_timer,
                   files, quiet, regens, burst, lay, mrg, entryVars>>

SelectionInit ==
    /\ EditorInit
    /\ texts = BlankTexts

SelectionNext ==
    \/ SelectTemplate
    \/ MousePress
    \/ MouseMove
    \/ MouseMoveFlat
    \/ MouseRelease
    \/ SetWorkingArea
    \/ PrevPage
    \/ NextPage

SelectionSpec == SelectionInit /\ [][SelectionNext]_vars

\* a selection on a preview whose window is resized and painted again
ResizeNext ==
    \/ SelectTemplate
    \/ MousePress
    \/ MouseMove
    \/ MouseRelease
    \/ ResizeEvent
    \/ PaintPdf
    \/ SetWorkingArea

ResizeSpec == SelectionInit /\ [][ResizeNext]_vars

-----------------------------------------------------------------------------
(* The debounced preview *)

update_preview_if_idle(timer) ==
    IF timer.active THEN timer ELSE [active |-> TRUE, remaining |-> DebounceMs]

\* MedicalRecipeEditor.update_preview: stop the timer, start it for the whole delay
update_preview(timer) == [active |-> TRUE, remaining |-> DebounceMs]

\* apply_format: the style of the field is created when missing, then one entry is set
apply_format(styles, field_name, format_type, value) ==
    LET style == get_field_style(styles, field_name)
        new == CASE format_type = "bold" -> [style EXCEPT !.bold = value]
                 [] format_type = "italic" -> [style EXCEPT !.italic = value]
                 [] format_type = "underline" -> [style EXCEPT !.underline = value]
                 [] format_type = "font" -> [style EXCEPT !.font = value]
                 [] OTHER -> [style EXCEPT !.size = value]
    IN  [k \in DOMAIN styles \cup {field_name} |-> IF k = field_name THEN new ELSE styles[k]]

\* what a regeneration did, with the quiet time it started after and the number
\* of update_preview calls it answers
RegenEvent(msg, layout, merged) ==
    [op |-> "_do_update_preview", msg |-> msg, layout |-> layout, merged |-> merged,
     quiet |-> quiet, burst |-> burst]

\* update_with_overlay once merge_pdfs has returned or raised
PreviewMerged(w, m) ==
    IF m.result = "ok"
    THEN [widget |-> load_pdf(w, [pages |-> m.file.pages]).widget, msg |-> "updated"]
    ELSE [widget |-> w, msg |-> "error"]

\* PDFPreviewWidget.update_with_overlay: merge into a temporary file and load it
update_with_overlay(w, ov) ==
    IF w.pdf_document = None
    THEN [widget |-> w, msg |-> "no_document"]
    ELSE IF w.template_pdf_path = NoPath
    THEN [widget |-> w, msg |-> "error"]
    ELSE PreviewMerged(w, merge_pdfs(w.template_pdf_path, ov, TRUE))

\* the outcome of _do_update_preview after a layout pass
Previewed(r, layout) == [widget |-> r.widget, msg |-> r.msg, layout |-> layout]

\* _do_update_preview from the overlay on
PreviewWith(w, ov) ==
    IF ov.result = "raised"
    THEN [widget |-> w, msg |-> "error", layout |-> ov.layout]
    ELSE Previewed(update_with_overlay(w, ov), ov.layout)

\* _do_update_preview: nothing without a working area
do_update_preview(w, path, wa, styles, txt) ==
    IF ~RectTruthy(wa)
    THEN [widget |-> w, msg |-> "no_working_area", layout |-> FALSE]
    ELSE PreviewWith(w, create_overlay(path, wa, styles, txt))

\* a text field is edited: textChanged calls update_preview
EditText ==
    \E d \in FormBodies :
        /\ d # texts["diagnostico"]
        /\ texts' = [texts EXCEPT !["diagnostico"] = d]
        /\ preview_timer' = update_preview(preview_timer)
        /\ quiet' = 0
        /\ regens' = 0
        /\ burst' = IF preview_timer.active THEN Min(burst + 1, MaxBurst) ELSE 1
        /\ last' = Event("edit", "", FALSE, FALSE)
        /\ UNCHANGED <<template_pdf_path, working_area, field_styles, pv, files, lay, mrg, entryVars>>

\* a format control of a field is used
ApplyFormatOf(types, values) ==
    \E field_name \in FormatKeys, format_type \in types, value \in values :
        /\ field_styles' = apply_format(field_styles, field_name, format_type, value)
        /\ preview_timer' = update_preview(preview_timer)
        /\ quiet' = 0
        /\ regens' = 0
        /\ burst' = IF preview_timer.active THEN Min(burst + 1, MaxBurst) ELSE 1
        /\ last' = Event("apply_format", "", FALSE, FALSE)
        /\ UNCHANGED <<template_pdf_path, working_area, texts, pv, files, lay, mrg, entryVars>>

ApplyFormat == ApplyFormatOf({"bold", "italic"}, BOOLEAN)

\* the bold button of a field is switched on
ApplyBold == ApplyFormatOf({"bold"}, {TRUE})

\* clear_fields: a field that was not empty reports its change
ClearFields ==
    /\ texts' = BlankTexts
    /\ IF texts # BlankTexts
       THEN /\ preview_timer' = update_preview(preview_timer)
            /\ quiet' = 0
            /\ regens' = 0
            /\ burst' = IF preview_timer.active THEN Min(burst + 1, MaxBurst) ELSE 1
            /\ last' = Event("clear_fields", "changed", FALSE, FALSE)
       ELSE /\ UNCHANGED <<preview_timer, quiet, regens, burst>>
            /\ last' = Event("clear_fields", "unchanged", FALSE, FALSE)
    /\ UNCHANGED <<template_pdf_path, working_area, field_styles, pv, files, lay, mrg, entryVars>>

\* time passes while the timer runs
Tick ==
    /\ preview_timer.active
    /\ preview_timer.remaining > 0
    /\ \E d \in {Min(TickMs, preview_timer.remaining)} :
        /\ preview_timer' = [preview_timer EXCEPT !.remaining = @ - d]
        /\ quiet' = quiet + d
    /\ UNCHANGED <<template_pdf_path, working_area, field_styles, texts, pv, files,
                   regens, burst, last, lay, mrg, entryVars>>

\* the single-shot timer expires: _do_update_preview
PreviewTimeout ==
    /\ preview_timer.active
    /\ preview_timer.remaining = 0
    /\ preview_timer' = TimerIdle
    /\ regens' = Min(regens + 1, MaxBurst)
    /\ burst' = 0
    /\ \E r \in {do_update_preview(pv, template_pdf_path, working_area, field_styles, texts)} :
        /\ pv' = r.widget
        /\ last' = RegenEvent(r.msg, r.layout, r.msg \in {"updated", "error"} /\ r.layout)
    /\ UNCHANGED <<template_pdf_path, working_area, field_styles, texts, files, quiet,
                   lay, mrg, entryVars>>

\* the preview once a.pdf is selected
LoadedPreview ==
    load_pdf([PreviewInit EXCEPT !.template_pdf_path = "a.pdf"], OpenTemplate("a.pdf")).widget

\* and once a rectangle has been dragged on it
SelectedPreview ==
    LET start == [x |-> PressX, y |-> PressY]
        end == [x |-> PressX + LongDragX - 1, y |-> PressY + LongDragY - 1]
    IN  [LoadedPreview EXCEPT !.start_point = start, !.end_point = end,
                              !.selection_rect = Normalized(QRectOf(start, end))]

\* the editor with a template selected, with and without a working area
DebounceInit ==
    /\ template_pdf_path = "a.pdf"
    /\ files = NoFiles
    /\ \/ pv = LoadedPreview /\ working_area = NoArea
       \/ pv = SelectedPreview /\ working_area = get_selection_rect(SelectedPreview)
    /\ field_styles = InitialFieldStyles
    /\ texts = BlankTexts
    /\ preview_timer = TimerIdle
    /\ quiet = 0
    /\ regens = 0
    /\ burst = 0
    /\ last = NoEvent
    /\ db = NoDatabase
    /\ journal = NoJournal
    /\ lay = LayoutIdle
    /\ mrg = MergeIdle

DebounceNext ==
    \/ EditText
    \/ ApplyFormat
    \/ ClearFields
    \/ Tick
    \/ PreviewTimeout

DebounceSpec == DebounceInit /\ [][DebounceNext]_vars

-----------------------------------------------------------------------------
(* A session on one template: selections, edits, previews and generations *)

\* the overlay pages a stored page carries
Layers(page) == IF "ov" \in DOMAIN page THEN Len(page.ov) ELSE 0

\* generate_pdf with the template file itself chosen in the save dialog
GeneratePdfOverTemplate ==
    /\ template_pdf_path # NoPath
    /\ \A i \in 1..Len(Stored(template_pdf_path).pages) :
          Layers(Stored(template_pdf_path).pages[i]) < MaxLayers
    /\ GeneratePdfTo({template_pdf_path})

\* a.pdf selected and a rectangle dragged that holds only part of the form
ShortSelectedPreview ==
    LET start == [x |-> PressX, y |-> PressY]
        end == [x |-> PressX + LongDragX - 1, y |-> PressY + ShortDragY - 1]
    IN  [LoadedPreview EXCEPT !.start_point = start, !.end_point = end,
                              !.selection_rect = Normalized(QRectOf(start, end))]

\* the rectangle is dragged and set_working_area not yet used on it; there is
\* no working area, or the one of an earlier, taller selection
SessionInit ==
    /\ template_pdf_path = "a.pdf"
    /\ files = NoFiles
    /\ pv = ShortSelectedPreview
    /\ working_area \in {NoArea, get_selection_rect(SelectedPreview)}
    /\ field_styles = InitialFieldStyles
    /\ texts = BlankTexts
    /\ preview_timer = TimerIdle
    /\ quiet = 0
    /\ regens = 0
    /\ burst = 0
    /\ last = NoEvent
    /\ db = NoDatabase
    /\ journal = NoJournal
    /\ lay = LayoutIdle
    /\ mrg = MergeIdle

SessionNext ==
    \/ SetWorkingArea
    \/ EditText
    \/ ApplyBold
    \/ Tick
    \/ PreviewTimeout
    \/ PrevPage
    \/ NextPage
    \/ GeneratePdf

SessionSpec == SessionInit /\ [][SessionNext]_vars

-----------------------------------------------------------------------------
(* Previews and generations on one template, any file as the save path *)

\* a.pdf selected and a working area defined on it
StoreInit ==
    /\ template_pdf_path = "a.pdf"
    /\ files = NoFiles
    /\ pv = LoadedPreview
    /\ working_area = get_selection_rect(ShortSelectedPreview)
    /\ field_styles = InitialFieldStyles
    /\ texts = BlankTexts
    /\ preview_timer = TimerIdle
    /\ quiet = 0
    /\ regens = 0
    /\ burst = 0
    /\ last = NoEvent
    /\ db = NoDatabase
    /\ journal = NoJournal
    /\ lay = LayoutIdle
    /\ mrg = MergeIdle

StoreNext ==
    \/ EditText
    \/ Tick
    \/ PreviewTimeout
    \/ GeneratePdf
    \/ GeneratePdfOverTemplate

StoreSpec == StoreInit /\ [][StoreNext]_vars

-----------------------------------------------------------------------------
(* A drag on the preview while the preview timer runs *)

\* a.pdf selected, a working area defined, nothing typed yet
DragInit == StoreInit

DragNext ==
    \/ MousePress
    \/ MouseMove
    \/ MouseRelease
    \/ EditText
    \/ Tick
    \/ PreviewTimeout

DragSpec == DragInit /\ [][DragNext]_vars

-----------------------------------------------------------------------------
(* EntryDatabase: the saved entries *)

\* the names _create_tables inserts into entry_categories, in the order of their ids
default_categories ==
    <<"diagnostico", "plan_tratamiento", "rutina_am", "rutina_pm", "recomendacion",
      "proxima_cita">>

\* a nullable integer of SQL is the set of its values: NULL is the empty set
Null == {}

\* EntryDatabase() on a new entries.db: both tables, the default categories
\* entry_categories: id -> name; entries: id -> [category_id, title, content]
create_tables ==
    [open |-> TRUE,
     entry_categories |-> default_categories,
     entries |-> <<>>]

\* (SELECT id FROM entry_categories WHERE name = ?): NULL when no row has the name
CategoryId(d, name) ==
    IF \E i \in DOMAIN d.entry_categories : d.entry_categories[i] = name
    THEN {CHOOSE i \in DOMAIN d.entry_categories : d.entry_categories[i] = name}
    ELSE Null

\* a comparison with NULL is not true
SqlEquals(a, b) == a # Null /\ b # Null /\ a = b

\* get_entries(category): the rows selected, as (id, title, content)
get_entries(d, category) ==
    {[id |-> i, title |-> d.entries[i].title, content |-> d.entries[i].content] :
        i \in {k \in DOMAIN d.entries :
                 SqlEquals(d.entries[k].category_id, CategoryId(d, category))}}

\* the rowid an INTEGER PRIMARY KEY column gets on INSERT: one above the largest
NextRowId(d) ==
    IF DOMAIN d.entries = {} THEN 1
    ELSE 1 + CHOOSE i \in DOMAIN d.entries : \A k \in DOMAIN d.entries : k <= i

\* a table with the row of key i put or replaced
WithRow(table, i, row) == [k \in DOMAIN table \cup {i} |-> IF k = i THEN row ELSE table[k]]

\* a table without the row of key i
WithoutRow(table, i) == [k \in DOMAIN table \ {i} |-> table[k]]

\* the categories, titles and contents the dialogs and other callers pass
CategoryInputs == {"diagnostico", "rutina_am", "notas"}

Titles == {"t1", "t2"}

Contents == {"c1", "c2"}

\* add_entry(category, title, content); lastrowid is returned
AddEntry ==
    \E category \in CategoryInputs, title \in Titles, content \in Contents :
        /\ db.open
        /\ Cardinality(DOMAIN db.entries) < MaxEntries
        /\ LET id == NextRowId(db)
           IN  /\ db' = [db EXCEPT !.entries =
                            WithRow(@, id, [category_id |-> CategoryId(db, category),
                                            title |-> title, content |-> content])]
               /\ journal' = WithRow(journal, id,
                                     [category |-> category, title |-> title, content |-> content])
        /\ UNCHANGED <<editorVars, lay, mrg>>

\* update_entry(entry_id, title, content) of an entry the dialog lists or has listed
UpdateEntry ==
    \E entry_id \in 1..MaxEntries, title \in Titles, content \in Contents :
        /\ db.open
        /\ db' = IF entry_id \in DOMAIN db.entries
                 THEN [db EXCEPT !.entries[entry_id].title = title,
                                 !.entries[entry_id].content = content]
                 ELSE db
        /\ journal' = IF entry_id \in DOMAIN journal
                      THEN [journal EXCEPT ![entry_id].title = title,
                                           ![entry_id].content = content]
                      ELSE journal
        /\ UNCHANGED <<editorVars, lay, mrg>>

\* delete_entry(entry_id)
DeleteEntry ==
    \E entry_id \in 1..MaxEntries :
        /\ db.open
        /\ db' = [db EXCEPT !.entries = WithoutRow(@, entry_id)]
        /\ journal' = WithoutRow(journal, entry_id)
        /\ UNCHANGED <<editorVars, lay, mrg>>

\* an EntryDatabase on a new database file, beside an editor just constructed
EntryInit ==
    /\ template_pdf_path = NoPath
    /\ working_area = NoArea
    /\ field_styles = InitialFieldStyles
    /\ texts = BlankTexts
    /\ preview_timer = TimerIdle
    /\ pv = PreviewInit
    /\ files = NoFiles
    /\ quiet = 0
    /\ regens = 0
    /\ burst = 0
    /\ last = NoEvent
    /\ lay = LayoutIdle
    /\ mrg = MergeIdle
    /\ db = create_tables
    /\ journal = NoJournal

EntryNext ==
    \/ AddEntry
    \/ UpdateEntry
    \/ DeleteEntry

EntrySpec == EntryInit /\ [][EntryNext]_vars

-----------------------------------------------------------------------------
(* merge_pdfs on its own: every template and overlay length *)

\* a template document of n pages, an overlay of n pages
DocOfPages(n) ==
    [readable |-> TRUE, pages |-> [i \in 1..n |-> [width |-> PageWidth, height |-> PageHeight]]]

OverlayOfPages(n) == [i \in 1..n |-> [gen |-> 0, index |-> i - 1]]

\* PdfReader(template_path), PdfReader(overlay_path), PdfWriter(), num_pages
MergeOpen ==
    /\ mrg.pc = "start"
    /\ mrg' = MergeOpened(DocOfPages(mrg.nbg), "bg.pdf", OverlayOfPages(mrg.nov))
    /\ UNCHANGED <<editorVars, lay, entryVars>>

\* a reader cannot read its file
MergeOpenFails ==
    /\ mrg.pc = "start"
    /\ mrg' = [mrg EXCEPT !.pc = "failed", !.io_error = TRUE]
    /\ UNCHANGED <<editorVars, lay, entryVars>>

MergePage ==
    /\ mrg.pc = "loop"
    /\ mrg' = MergeIter(mrg)
    /\ UNCHANGED <<editorVars, lay, entryVars>>

\* open(output_path, 'wb') and output.write
MergeWrite ==
    /\ mrg.pc = "write"
    /\ mrg' = [mrg EXCEPT !.pc = "done"]
    /\ files' = [files EXCEPT !["out.pdf"] = WrittenPdf(mrg)]
    /\ UNCHANGED <<template_pdf_path, working_area, field_styles, texts, preview_timer, pv,
                   quiet, regens, burst, last, lay, entryVars>>

\* the file is opened and the write stops before its end
MergeWriteFails ==
    /\ mrg.pc = "write"
    /\ mrg' = [mrg EXCEPT !.pc = "failed", !.io_error = TRUE]
    /\ files' = [files EXCEPT !["out.pdf"] = PartialFile]
    /\ UNCHANGED <<template_pdf_path, working_area, field_styles, texts, preview_timer, pv,
                   quiet, regens, burst, last, lay, entryVars>>

\* a document written to the output path by an earlier generation
OlderOutput == [kind |-> "pdf", pages |-> ReaderPages(DocOfPages(1), "older.pdf")]

MergeInit ==
    /\ \E nbg \in 0..MaxBgPages, nov \in 0..MaxOvPages :
          mrg = [pc |-> "start", nbg |-> nbg, nov |-> nov, io_error |-> FALSE]
    /\ template_pdf_path = NoPath
    /\ working_area = NoArea
    /\ field_styles = InitialFieldStyles
    /\ texts = BlankTexts
    /\ preview_timer = TimerIdle
    /\ pv = PreviewInit
    /\ files \in {NoFiles, [NoFiles EXCEPT !["out.pdf"] = OlderOutput]}
    /\ quiet = 0
    /\ regens = 0
    /\ burst = 0
    /\ last = NoEvent
    /\ db = NoDatabase
    /\ journal = NoJournal
    /\ lay = LayoutIdle

MergeNext ==
    \/ MergeOpen
    \/ MergeOpenFails
    \/ MergePage
    \/ MergeWrite
    \/ MergeWriteFails

MergeSpec == MergeInit /\ [][MergeNext]_vars

-----------------------------------------------------------------------------
(* Properties of a layout pass *)

Draws == lay.draws

WrapDraws == {i \in 1..Len(Draws) : Draws[i].kind = "wrap"}

RECURSIVE SumSeq(_)
SumSeq(s) == IF s = <<>> THEN 0 ELSE Head(s) + SumSeq(Tail(s))

\* the characters of " ".join(words)
JoinedChars(words) == IF words = <<>> THEN 0 ELSE SumSeq(words) + Len(words) - 1

DrawsOfCall(op) == {i \in WrapDraws : Draws[i].op = op}

PageBreaks == {i \in 1..Len(Draws) : Draws[i].brk}

\* C1: every draw of a layout pass lies inside the working area vertically:
\* workingArea.y <= y <= workingArea.y + workingArea.height, key-value rows included.
C1_DrawsInsideWorkingArea ==
    \A i \in 1..Len(Draws) :
        /\ G.y_offset <= Draws[i].y
        /\ Draws[i].y <= G.y_offset + G.work_height

\* C7: the page index of successive draws never decreases and grows by exactly one
\* per page break; the first line after a page break is at
\* workingArea.y + workingArea.height - margin, where the first draw of page 0 is.
C7_PaginationMonotone ==
    /\ Len(Draws) > 0 =>
          /\ Draws[1].page = 0
          /\ Draws[1].y = G.y_offset + G.work_height - margin
    /\ \A i \in 1..Len(Draws) - 1 :
          Draws[i + 1].page = Draws[i].page + (IF Draws[i + 1].brk THEN 1 ELSE 0)
    /\ \A i \in PageBreaks :
          /\ Draws[i].y = G.y_offset + G.work_height - margin
          /\ Draws[i].y = Draws[1].y
    /\ Len(Draws) > 0 => lay.page >= Draws[Len(Draws)].page

C7_Witness ==
    /\ lay.pc = "done"
    /\ Cardinality(PageBreaks) >= 2
    /\ \E i \in 1..Len(Draws) - 1 : ~Draws[i + 1].brk /\ Draws[i + 1].kind = "wrap"

\* the lines a page holds when the area is margin + N line heights tall
FitLines == (G.work_height - margin) \div line_height

\* C8: a wrapped line is drawn after a page break exactly when
\* cursor - lineHeight < workingArea.y; otherwise it is drawn at the cursor on the
\* current page; either way the cursor ends one lineHeight below the line.  So in an
\* area that exactly fits N lines a page begun at the top holds N lines of a text
\* and line N+1 opens the next page at the top.
C8_BreakExactlyOnOverflow ==
    /\ \A i \in WrapDraws :
          /\ Draws[i].brk <=> (Draws[i].cursor - line_height < G.y_offset)
          /\ ~Draws[i].brk => Draws[i].y = Draws[i].cursor
          /\ Draws[i].brk => Draws[i].y = G.y_offset + G.work_height - margin
    /\ \A i \in WrapDraws :
          IF i + 1 \in DrawsOfCall(Draws[i].op)
          THEN Draws[i + 1].cursor = Draws[i].y - line_height
          ELSE lay.calls[Draws[i].op].y_out = Draws[i].y - line_height
    /\ (G.work_height = margin + FitLines * line_height /\ FitLines >= 1) =>
          \A i \in PageBreaks : \A j \in i..Len(Draws) :
              (\A k \in i..j : Draws[k].op = Draws[i].op /\ Draws[k].page = Draws[i].page) =>
                  /\ j - i + 1 <= FitLines
                  /\ Draws[j].y = Draws[i].y - (j - i) * line_height
                  /\ (j + 1 \in DrawsOfCall(Draws[i].op) /\ Draws[j + 1].brk) => j - i + 1 = FitLines

C8_Witness ==
    /\ lay.pc = "done"
    /\ G.work_height = margin + 3 * line_height
    /\ \E i \in PageBreaks :
          /\ {i + 1, i + 2, i + 3} \subseteq DrawsOfCall(Draws[i].op)
          /\ ~Draws[i + 1].brk /\ ~Draws[i + 2].brk /\ Draws[i + 3].brk

Oversized(c, w) ==
    stringWidth(w, WrapFontName(c.style), c.style.size) > (G.work_width - 2 * margin) * 100

\* C10: a token wider than the available width is alone on its line: a text of one
\* oversized token gives exactly one line, holding that token, and moves the cursor
\* by exactly one lineHeight; an oversized token at any position has a line to itself.
C10_OversizedTokenAlone ==
    \A n \in 1..Len(lay.calls) :
        LET c == lay.calls[n]
        IN  c.ok =>
              /\ (Len(c.words) = 1 /\ Oversized(c, c.words[1])) =>
                    /\ Cardinality(DrawsOfCall(n)) = 1
                    /\ \A i \in DrawsOfCall(n) :
                          Draws[i].words = c.words /\ c.y_out = Draws[i].y - line_height
              /\ \A k \in 1..Len(c.words) :
                    Oversized(c, c.words[k]) =>
                        \E i \in DrawsOfCall(n) : Draws[i].words = <<c.words[k]>>

\* the second half of C10 alone
OversizedTokenHasOwnLine ==
    \A n \in 1..Len(lay.calls) :
        LET c == lay.calls[n]
        IN  c.ok => \A k \in 1..Len(c.words) :
                    Oversized(c, c.words[k]) =>
                        \E i \in DrawsOfCall(n) : Draws[i].words = <<c.words[k]>>

-----------------------------------------------------------------------------
(* Properties of the sections *)

NonEmptyLine(l) == l # <<>>

RECURSIVE ExpectedCallsFrom(_)
\* the draw_wrapped_text calls of a pass from section k on: the label, one call per
\* line of the body that holds a word, and after the last section the appointment
ExpectedCallsFrom(k) ==
    IF k > Len(Sections)
    THEN << [what |-> "proxima", words |-> ProximaCitaWords] >>
    ELSE << [what |-> "label", words |-> Sections[k].label] >>
         \o [i \in 1..Len(SelectSeq(texts[Sections[k].key], NonEmptyLine)) |->
                [what |-> "body", words |-> SelectSeq(texts[Sections[k].key], NonEmptyLine)[i]]]
         \o ExpectedCallsFrom(k + 1)

\* C11: a body line without a word gives no draw_wrapped_text call, hence no draw,
\* and leaves the cursor where it was: the calls of a finished pass are the labels
\* and the non-empty body lines, each body call starting where the call before it
\* ended; a section without a non-empty line has its label call only; and wrapping
\* a text without words draws nothing and returns the cursor it was given.
C11_EmptyContentDrawsNothing ==
    /\ lay.pc = "done" =>
          [n \in 1..Len(lay.calls) |-> [what |-> lay.calls[n].what, words |-> lay.calls[n].words]]
             = ExpectedCallsFrom(1)
    /\ \A n \in 2..Len(lay.calls) :
          lay.calls[n].y_in = lay.calls[n - 1].y_out
                                - (IF lay.calls[n].what = "body" THEN 0 ELSE line_height \div 2)
    /\ \A n \in 1..Len(lay.calls) : lay.calls[n].what = "body" => lay.calls[n].words # <<>>
    /\ lay.pc \notin {"done", "failed"} =>
          LET r == draw_wrapped_text(G, lay, <<>>, lay.y_pos,
                                     get_field_style(field_styles, "diagnostico"), "body")
          IN  r.ok => r.draws = lay.draws /\ r.y_pos = lay.y_pos /\ r.page = lay.page

\* a finished pass over a text with a blank line between two lines of words, the
\* other sections holding no word
C11_Witness ==
    /\ lay.pc = "done"
    /\ Len(texts["diagnostico"]) = 3
    /\ texts["diagnostico"][1] # <<>>
    /\ texts["diagnostico"][2] = <<>>
    /\ texts["rutina_am"] = << <<>> >>
    /\ Len(lay.calls) = Len(Sections) + 3

\* the words of a call fit on one line of the working area
FitsOneLine(c) ==
    stringWidth(SumSeq(c.words) + Len(c.words), WrapFontName(c.style), c.style.size)
        <= available_width(G)

\* C12: a section label that fits on a line is one draw, the cursor then stands
\* 1.5 lineHeight below it, and the first body line of the section, when no page
\* break intervenes, is drawn 1.5 lineHeight below the label.
C12_HeaderSpacing ==
    \A n \in 1..Len(lay.calls) :
        LET c == lay.calls[n]
        IN  (c.what = "label" /\ c.ok /\ FitsOneLine(c)) =>
              /\ Cardinality(DrawsOfCall(n)) = 1
              /\ \A i \in DrawsOfCall(n) :
                    /\ c.y_out = Draws[i].y - (3 * line_height) \div 2
                    /\ (n + 1 <= Len(lay.calls) /\ lay.calls[n + 1].what = "body") =>
                          \A j \in DrawsOfCall(n + 1) :
                              (j = i + 1 /\ ~Draws[j].brk) =>
                                  Draws[j].y = Draws[i].y - (3 * line_height) \div 2

-----------------------------------------------------------------------------
(* Properties of the fonts *)

\* the draws made under the style stored for a key: the runs of its key-value row,
\* the lines of the draw_wrapped_text calls given that style
DrawsOfKey(k) ==
    {i \in 1..Len(Draws) :
        \/ Draws[i].kind # "wrap" /\ Draws[i].label = k
        \/ Draws[i].kind = "wrap" /\ lay.calls[Draws[i].op].style = field_styles[k]}

\* C13: a stored style whose family is outside the supported set never makes the
\* pass fail, and everything drawn under it is drawn in Helvetica with the bold and
\* italic flags of the style, in a key-value row or a wrapped section, before and
\* after a page break.
C13_UnsupportedFontRecovered ==
    \A k \in DOMAIN field_styles :
        field_styles[k].font \notin standard_fonts =>
            /\ lay.pc # "failed"
            /\ \A i \in DrawsOfKey(k) :
                  Draws[i].font = WrapFontName([field_styles[k] EXCEPT !.font = "Helvetica"])

\* C14: a draw_wrapped_text call that starts with a font the canvas accepts never
\* fails at a page break, and every line it draws, before and after a break, is in
\* the font variant and size the call started with, whatever the family and the
\* bold, italic and underline flags of its style; underline does not enter the name.
C14_StyleKeptAcrossPageBreak ==
    \A n \in 1..Len(lay.calls) :
        LET c == lay.calls[n]
        IN  ValidFont(WrapFontName(c.style)) =>
              /\ c.ok
              /\ WrapFontName(c.style) = WrapFontName([c.style EXCEPT !.underline = FALSE])
              /\ \A i \in DrawsOfCall(n) :
                    /\ Draws[i].font = WrapFontName(c.style)
                    /\ Draws[i].size = c.style.size

\* C15: for a style of a supported base family, draw_wrapped_text resolves bold
\* with italic to what it resolves bold alone to, italic alone to an italic variant
\* of the family and bold alone to a bold variant of it: a font of the canvas,
\* other than the plain family, the two differing from each other.
C15_VariantResolution ==
    \A n \in 1..Len(lay.calls) :
        LET style == lay.calls[n].style
            bold_only == [style EXCEPT !.bold = TRUE, !.italic = FALSE]
            italic_only == [style EXCEPT !.bold = FALSE, !.italic = TRUE]
        IN  style.font \in BaseFamilies =>
              /\ (style.bold /\ style.italic) => WrapFontName(style) = WrapFontName(bold_only)
              /\ (style.bold /\ ~style.italic) =>
                    /\ ValidFont(WrapFontName(style))
                    /\ WrapFontName(style) # style.font
              /\ (~style.bold /\ style.italic) =>
                    /\ ValidFont(WrapFontName(style))
                    /\ WrapFontName(style) \notin {style.font, WrapFontName(bold_only)}

\* C16: before any formatting action get_field_style gives bold to every label key
\* and not to any content key, and the same family and the same size to all keys.
C16_DefaultStyles ==
    field_styles = InitialFieldStyles =>
        /\ \A k \in LabelKeys : get_field_style(field_styles, k).bold
        /\ \A k \in ContentKeys : ~get_field_style(field_styles, k).bold
        /\ \A k1, k2 \in LabelKeys \cup ContentKeys :
              /\ get_field_style(field_styles, k1).font = get_field_style(field_styles, k2).font
              /\ get_field_style(field_styles, k1).size = get_field_style(field_styles, k2).size

-----------------------------------------------------------------------------
(* Properties of merge_pdfs *)

MergeEnded == mrg.pc \in {"done", "failed"}

\* C2: merge_pdfs writes exactly max(|background pages|, |overlay pages|) pages,
\* for every pair of lengths, an empty background or an empty overlay included.
C2_MergeCardinality ==
    (MergeEnded /\ ~mrg.io_error) =>
        /\ mrg.pc = "done"
        /\ files["out.pdf"].kind = "pdf"
        /\ Len(files["out.pdf"].pages) = Max(Len(mrg.doc.pages), Len(mrg.overlay_pages))

\* the pages merge_pdfs has added to the writer so far
MergeOutput == IF "output" \in DOMAIN mrg THEN mrg.output ELSE <<>>

\* C3: output page i shows background page i when there is one and otherwise
\* background page 0, and carries the overlay page of its own index and no other:
\* an added page never carries what was merged for another output page.
C3_CleanBackgroundCopies ==
    \A n \in 1..Len(MergeOutput) :
        LET i == n - 1
            page == MergeOutput[n]
        IN  /\ page.bg = [path |-> mrg.template_path,
                          index |-> IF i < Len(mrg.doc.pages) THEN i ELSE 0]
            /\ page.ov = IF i < Len(mrg.overlay_pages) THEN <<mrg.overlay_pages[n]>> ELSE <<>>
            /\ mrg.pc = "done" => files["out.pdf"].pages[n] = page

C3_Witness ==
    /\ mrg.pc = "done"
    /\ Len(mrg.doc.pages) = 1
    /\ Len(mrg.overlay_pages) = 3
    /\ Len(files["out.pdf"].pages) = 3
    /\ files["out.pdf"].pages[3].bg.index = 0
    /\ files["out.pdf"].pages[3].ov = <<mrg.overlay_pages[3]>>

-----------------------------------------------------------------------------
(* Properties of generate_pdf *)

\* C4: a generate_pdf that ends with an error leaves every file at the chosen
\* output path as it was: no partially written file appears there.
C4_FailedGenerationLeavesNoPartialFile ==
    [][(last'.op = "generate_pdf" /\ last'.msg = "error") => files' = files]_vars

\* C5: generate_pdf without a template, or without a working area, reports the
\* missing precondition, runs no layout pass and no merge, writes no file and
\* leaves the template path, the working area and the field styles as they were.
C5_PreconditionsBlockGeneration ==
    [][(last'.op = "generate_pdf" /\ (template_pdf_path = NoPath \/ ~RectTruthy(working_area)))
        => /\ last'.msg = IF template_pdf_path = NoPath THEN "no_template"
                          ELSE "no_working_area"
           /\ ~last'.layout
           /\ ~last'.merged
           /\ files' = files
           /\ UNCHANGED <<template_pdf_path, working_area, field_styles, texts, pv>>]_vars

\* a template is loaded, no working area is defined, and generate_pdf has just
\* reported it
C5_Witness ==
    /\ last.op = "generate_pdf"
    /\ last.msg = "no_working_area"
    /\ template_pdf_path = "a.pdf"
    /\ pv.pdf_document # None
    /\ working_area = NoArea

-----------------------------------------------------------------------------
(* Properties of the debounced preview *)

PreviewOverlays ==
    IF pv.pdf_document = None THEN {}
    ELSE UNION {{pv.pdf_document.pages[i].ov[j] : j \in 1..Len(pv.pdf_document.pages[i].ov)} :
                  i \in 1..Len(pv.pdf_document.pages)}

\* C6: while an edit or a format change waits for its regeneration the timer
\* runs and expires 500 ms after the last of them; once the timer is idle exactly
\* one _do_update_preview has run since the last edit, it started after 500 ms
\* of quiet, and what it put in the preview was laid out from the current texts
\* and styles.
C6_Debounce ==
    /\ regens <= 1
    /\ preview_timer.active
         => regens = 0 /\ preview_timer.remaining = DebounceMs - quiet
    /\ last.op \in {"edit", "apply_format"} => preview_timer.active
    /\ (last.op = "clear_fields" /\ last.msg = "changed") => preview_timer.active
    /\ ~preview_timer.active
         => \/ regens = 1 /\ quiet >= DebounceMs
            \/ regens = 0 /\ texts = BlankTexts /\ field_styles = InitialFieldStyles
    /\ last.op = "_do_update_preview"
         => /\ ~preview_timer.active
            /\ last.quiet >= DebounceMs
            /\ last.msg = "updated"
                 => /\ PreviewOverlays # {}
                    /\ \A o \in PreviewOverlays :
                          o.gen.texts = texts /\ o.gen.styles = field_styles

\* a burst of at least two changes has been answered by one regeneration that put
\* the overlay of the edited text and style in the preview
C6_Witness ==
    /\ last.op = "_do_update_preview"
    /\ last.msg = "updated"
    /\ last.burst >= 2
    /\ regens = 1
    /\ texts # BlankTexts
    /\ "diagnostico" \in DOMAIN field_styles

-----------------------------------------------------------------------------
(* Properties of the selection *)

\* a selection of the preview under 10 pixels wide or high
BelowMinimum(r) == r.width < MinSelection \/ r.height < MinSelection

\* C17: once the mouse button is released the preview holds no selection under 10
\* pixels wide or high: a release over such a rectangle leaves selection_rect None
\* and get_selection_rect None, and a set_working_area that follows defines
\* nothing and leaves the working area as it was.
C17_MinimumSelection ==
    /\ [](~pv.is_selecting =>
            \/ pv.selection_rect = None /\ get_selection_rect(pv) = None
            \/ pv.selection_rect # None /\ ~BelowMinimum(pv.selection_rect))
    /\ [][(last'.op = "_mouse_release" /\ pv.start_point # None /\ pv.end_point # None
             /\ BelowMinimum(Normalized(QRectOf(pv.start_point, pv.end_point))))
            => pv'.selection_rect = None /\ get_selection_rect(pv') = None]_vars
    /\ [][(last'.op = "set_working_area" /\ ~pv.is_selecting /\ pv.selection_rect = None)
            => working_area' = working_area /\ last'.msg = "no_selection"]_vars

\* a drag 200 pixels wide and 6 pixels high has been released and set_working_area
\* has answered that there is no selection
C17_Witness ==
    /\ last.op = "set_working_area"
    /\ last.msg = "no_selection"
    /\ ~pv.is_selecting
    /\ pv.start_point # None
    /\ pv.end_point # None
    /\ pv.end_point.x - pv.start_point.x >= MinSelection
    /\ pv.end_point.y - pv.start_point.y < MinSelection - 1
    /\ pv.selection_rect = None

\* the rectangle lies on the page, with a positive extent
WithinPage(r, page) ==
    /\ r.width > 0 /\ r.height > 0
    /\ 0 <= r.x /\ 0 <= r.y
    /\ r.x + r.width <= page.width
    /\ r.y + r.height <= page.height

\* C18: whenever a working area is defined it has a positive width and height
\* and lies within page 0 of the currently selected template, the page the
\* layout pass takes its size from.
C18_WorkingAreaWithinPage ==
    working_area # NoArea =>
        /\ template_pdf_path # NoPath
        /\ Stored(template_pdf_path).readable
        /\ WithinPage(working_area, Stored(template_pdf_path).pages[1])

-----------------------------------------------------------------------------
(* Properties of the working area across a session *)

\* C19: working_area changes only in a set_working_area call that has a valid
\* selection, and then to the whole selection, all four components at once; a
\* set_working_area without a valid selection, edits, format changes, preview
\* regenerations, page navigation and generate_pdf leave it as it is.
C19_WorkingAreaFrame ==
    [][working_area' # working_area =>
          /\ last'.op = "set_working_area" /\ last'.msg = "defined"
          /\ get_selection_rect(pv) # None
          /\ working_area' = get_selection_rect(pv)]_vars

\* a set_working_area that found the selection cleared by a regeneration, the
\* area still in force
C19_Witness ==
    /\ last.op = "set_working_area" /\ last.msg = "no_selection"
    /\ working_area # NoArea /\ working_area # get_selection_rect(SelectedPreview)
    /\ files["out.pdf"].kind = "pdf"
    /\ pv.selection_rect = None
    /\ pv.pdf_document # None /\ Layers(pv.pdf_document.pages[1]) > 0

-----------------------------------------------------------------------------
(* Properties of repeated merges *)

\* the page shows a page of the operator's template and one overlay at most
SingleMerge(page) ==
    /\ page.bg.path = template_pdf_path
    /\ Len(page.ov) <= 1

\* C20: across preview regenerations and generations every merge has the
\* selected template, as the operator supplied it, for background: no template
\* file is ever written, and no page of a preview or of a generated document
\* carries an overlay of an earlier merge under the one of its own merge.
C20_MergeNonAccumulating ==
    /\ \A p \in TemplatePaths : files[p] = Absent
    /\ \A p \in SavePaths :
          files[p].kind = "pdf" =>
              \A i \in 1..Len(files[p].pages) : SingleMerge(files[p].pages[i])
    /\ pv.pdf_document # None =>
          \A i \in 1..Len(pv.pdf_document.pages) : SingleMerge(pv.pdf_document.pages[i])

-----------------------------------------------------------------------------
(* Properties of the order of the output *)

\* the key-value rows of the form, in the order of the form
FormRows == <<"fecha", "paciente", "edad", "biotipo", "fototipo", "envejecimiento">>

\* the wrapped sections of the form, in the order of the form
FormSections == <<"diagnostico", "plan_tratamiento", "rutina_am", "rutina_pm", "recomendacion">>

\* the style key of the label of a row or section
LabelKeyOf(k) ==
    CASE k = "fecha" -> "fecha_label"
      [] k = "paciente" -> "paciente_label"
      [] k = "edad" -> "edad_label"
      [] k = "biotipo" -> "biotipo_label"
      [] k = "fototipo" -> "fototipo_label"
      [] k = "envejecimiento" -> "envejecimiento_label"
      [] k = "diagnostico" -> "diagnostico_label"
      [] k = "plan_tratamiento" -> "plan_tratamiento_label"
      [] k = "rutina_am" -> "rutina_am_label"
      [] k = "rutina_pm" -> "rutina_pm_label"
      [] OTHER -> "recomendacion_label"

\* the key-value draws, and the number of label calls among the first n calls
KvDraws == {i \in 1..Len(Draws) : Draws[i].kind # "wrap"}

LabelCallsUpTo(n) == Cardinality({m \in 1..n : lay.calls[m].what = "label"})

\* C21: the draws come in the order of the form: the rows Fecha, Paciente, Edad,
\* Biotipo, Fototipo, Grado de envejecimiento, label before content, then for each
\* section in the order Diagnostico, Plan de tratamiento, Rutina AM, Rutina PM,
\* Recomendacion its label and then its body lines, then the appointment; and the
\* order of emission is the order by ascending page and, within a page,
\* non-increasing y.
C21_SectionOrder ==
    /\ \A i \in 1..Len(Draws) - 1 :
          \/ Draws[i].page < Draws[i + 1].page
          \/ Draws[i].page = Draws[i + 1].page /\ Draws[i + 1].y <= Draws[i].y
    /\ \A i \in KvDraws :
          /\ i <= 2 * Len(FormRows)
          /\ Draws[i].label = (IF i % 2 = 1 THEN LabelKeyOf(FormRows[(i + 1) \div 2])
                               ELSE FormRows[i \div 2])
          /\ Draws[i].kind = (IF i % 2 = 1 THEN "kv_label" ELSE "kv_content")
    /\ \A i \in WrapDraws :
          /\ i > 2 * Len(FormRows)
          /\ i + 1 \in WrapDraws => Draws[i].op <= Draws[i + 1].op
    /\ \A n \in 1..Len(lay.calls) :
          LET c == lay.calls[n]
              k == LabelCallsUpTo(n)
          IN  CASE c.what = "label" ->
                      /\ k <= Len(FormSections)
                      /\ c.style = get_field_style(field_styles, LabelKeyOf(FormSections[k]))
                      /\ n > 1 => lay.calls[n - 1].what # "proxima"
                [] c.what = "body" ->
                      /\ k >= 1
                      /\ c.style = get_field_style(field_styles, FormSections[k])
                      /\ \E l \in 1..Len(texts[FormSections[k]]) :
                            texts[FormSections[k]][l] = c.words
                [] OTHER ->
                      /\ k = Len(FormSections)
                      /\ n = Len(lay.calls)
    /\ lay.pc = "done" =>
          /\ Cardinality(KvDraws) = 2 * Len(FormRows)
          /\ LabelCallsUpTo(Len(lay.calls)) = Len(FormSections)
          /\ lay.calls[Len(lay.calls)].what = "proxima"

\* a finished pass of several pages in which a section has a body
C21_Witness ==
    /\ lay.pc = "done"
    /\ lay.page >= 2
    /\ \E n \in 2..Len(lay.calls) :
          lay.calls[n].what = "body" /\ lay.calls[n - 1].what = "label"
    /\ \E i \in WrapDraws : Draws[i].brk /\ lay.calls[Draws[i].op].what = "body"

-----------------------------------------------------------------------------
(* Termination of a layout pass *)

RECURSIVE BodySteps(_)
\* the steps of the sections from section k on: a label and the lines of the text
BodySteps(k) ==
    IF k > Len(FormSections) THEN 0
    ELSE 1 + Len(texts[FormSections[k]]) + BodySteps(k + 1)

\* the steps a pass has before it: the rows, the labels, the lines of the texts,
\* the appointment and c.save()
StepsLeft(L) ==
    CASE L.pc = "fecha"   -> 1 + (Len(FormRows) - 1) + BodySteps(1) + 2
      [] L.pc = "fields"  -> (Len(FormRows) - L.fi) + BodySteps(1) + 2
      [] L.pc = "label"   -> BodySteps(L.sec) + 2
      [] L.pc = "body"    -> (Len(texts[FormSections[L.sec]]) - L.li + 1) + BodySteps(L.sec + 1) + 2
      [] L.pc = "proxima" -> 2
      [] L.pc = "save"    -> 1
      [] OTHER            -> 0

\* C22: a layout pass ends, whatever the working area: every step of the pass
\* brings it nearer to its end by the count of the rows, labels and lines still
\* to do, a pass that has not ended has a step to take, so a pass ends within
\* that many steps, at c.save() or at a font the canvas refuses; with the fonts
\* of a fresh editor it is never refused, also in an area lower than
\* margin + line_height or narrower than a word, where it takes more pages.
C22_LayoutTerminates ==
    /\ [][StepsLeft(lay') < StepsLeft(lay)]_vars
    /\ [](StepsLeft(lay) >= 0)
    /\ []((StepsLeft(lay) = 0) <=> (lay.pc \in {"done", "failed"}))
    /\ [](lay.pc \in {"fecha", "fields", "label", "body", "proxima", "save", "done", "failed"})
    /\ []((get_field_style(field_styles, "diagnostico").font = "Helvetica") => lay.pc # "failed")

\* a finished pass in an area that holds no line and is narrower than the labels
C22_Witness ==
    /\ lay.pc = "done"
    /\ working_area.height < margin + line_height
    /\ working_area.width = NarrowWidth
    /\ \E l \in 1..Len(texts["diagnostico"]) : LongWord \in Range(texts["diagnostico"][l])
    /\ lay.page > Len(Sections)

-----------------------------------------------------------------------------
(* Properties of the coordinate conversion *)

\* r, in document units, is what the rectangle sel of the preview becomes when
\* the origin of the document rectangle is subtracted and position and size are
\* divided by the scale: multiplied by the scale again it is sel again
ConvertsBack(r, sel, w) ==
    /\ r.x * w.scale_factor.num = (sel.x - w.pdf_rect.x) * w.scale_factor.den
    /\ r.y * w.scale_factor.num = (sel.y - w.pdf_rect.y) * w.scale_factor.den
    /\ r.width * w.scale_factor.num = sel.width * w.scale_factor.den
    /\ r.height * w.scale_factor.num = sel.height * w.scale_factor.den

\* C23: the rectangle get_selection_rect returns for a selection inside the
\* document rectangle, converted back to the preview (times the scale, plus the
\* origin), is the selection.
C23_RoundTrip ==
    (pv.selection_rect # None /\ pv.pdf_rect # None) =>
        LET r == get_selection_rect(pv)
        IN  r # None /\ ConvertsBack(r, pv.selection_rect, pv)

-----------------------------------------------------------------------------
(* Properties of a drag *)

\* C24: while is_selecting is set the start point of the drag is set, whatever
\* the order of the mouse events and the reloads of the preview that the timer
\* starts, so that _mouse_move always has its anchor.
C24_DragHasAnchor ==
    /\ pv.is_selecting => pv.start_point # None
    /\ ~(last.op = "_mouse_move" /\ last.msg = "TypeError")

-----------------------------------------------------------------------------
(* Properties of the font names given to the canvas *)

\* C25: with every stored style in one of the three families the font box offers,
\* and any bold, italic and underline flags, every font name a layout pass gives
\* to setFont or stringWidth is one of the fourteen standard names: in the
\* key-value rows, in the wrapped text and after a page break.
C25_StandardFontNames ==
    (\A k \in DOMAIN field_styles : field_styles[k].font \in BaseFamilies) =>
        /\ ValidFont(lay.font)
        /\ \A i \in 1..Len(Draws) : ValidFont(Draws[i].font)

-----------------------------------------------------------------------------
(* Properties of the words of a wrapped text *)

RECURSIVE TokensDrawn(_, _)
\* the words of the lines drawn for call op among the first n draws, in draw order
TokensDrawn(op, n) ==
    IF n = 0 THEN <<>>
    ELSE IF Draws[n].kind = "wrap" /\ Draws[n].op = op
         THEN TokensDrawn(op, n - 1) \o Draws[n].words
         ELSE TokensDrawn(op, n - 1)

\* C26: the wrap loses, repeats and reorders no word: the words of the lines
\* drawn for a text that draw_wrapped_text has returned from, taken in draw order
\* and across page breaks, are the words of text.split().
C26_WordsPreserved ==
    \A n \in 1..Len(lay.calls) :
        lay.calls[n].ok => TokensDrawn(n, Len(Draws)) = lay.calls[n].words

\* a text of three words and more drawn on several lines, one after a page break
C26_Witness ==
    \E n \in 1..Len(lay.calls) :
        /\ lay.calls[n].ok
        /\ Len(lay.calls[n].words) >= 3
        /\ \E i, j \in DrawsOfCall(n) :
              i < j /\ Draws[i].words # <<>> /\ Draws[j].brk /\ Draws[j].words # <<>>

-----------------------------------------------------------------------------
(* Properties of the pages of the overlay *)

\* the draws put on a page of the canvas
DrawsOnPage(p) == {i \in 1..Len(Draws) : Draws[i].page = p}

\* a drawString that puts ink on the page: a run of a key-value row, a line of words
Inked(i) == Draws[i].kind # "wrap" \/ Draws[i].words # <<>>

\* every page of the canvas holds a drawString, every showPage is followed by one
EveryPageHasDraw ==
    lay.pc \notin {"fecha", "failed"} =>
        /\ \A p \in 0..lay.page : DrawsOnPage(p) # {}
        /\ \A i \in PageBreaks : i = 1 \/ Draws[i].page = Draws[i - 1].page + 1

\* C27: the overlay has no blank page: a page is turned only to draw a line on the
\* new page, so every page of the overlay holds a drawn line and no two page
\* breaks follow each other without one, also in a working area lower than
\* margin + line_height.
C27_NoBlankPages ==
    /\ EveryPageHasDraw
    /\ lay.pc # "failed" =>
          \A p \in 0..lay.page :
              (p < lay.page \/ lay.pc = "done") => \E i \in DrawsOnPage(p) : Inked(i)

-----------------------------------------------------------------------------
(* Properties of the page navigation *)

PageCount(w) == Len(w.pdf_document.pages)

\* the page shown is a page of the document
PageInRange(w) == w.pdf_document # None => (0 <= w.current_page /\ w.current_page <= PageCount(w) - 1)

\* C28: with a document loaded, 0 <= current_page <= page count - 1 after every
\* prev_page, next_page and regeneration of the preview, which reloads a document
\* of another page count; prev_page on page 0 and next_page on the last page
\* leave current_page as it is.
C28_PageNavigation ==
    /\ [](PageInRange(pv))
    /\ [][/\ (last'.op = "prev_page" /\ pv.current_page = 0) => pv' = pv
          /\ (last'.op = "next_page" /\ pv.pdf_document # None
                /\ pv.current_page = PageCount(pv) - 1) => pv' = pv
          /\ (last'.op = "prev_page" /\ pv.current_page > 0) =>
                pv'.current_page = pv.current_page - 1
          /\ (last'.op = "next_page" /\ pv.pdf_document # None
                /\ pv.current_page < PageCount(pv) - 1) =>
                pv'.current_page = pv.current_page + 1]_vars

\* the last page of a regenerated preview of several pages, reached by next_page
C28_Witness ==
    /\ regens > 0
    /\ last.op = "next_page"
    /\ pv.pdf_document # None
    /\ PageCount(pv) >= 2
    /\ pv.current_page = PageCount(pv) - 1

-----------------------------------------------------------------------------
(* Properties of a selection across a resize *)

\* C29: the working area of a drawn selection depends only on where the selection
\* lay in the preview rectangle of the document when it was drawn: a resizeEvent
\* or a _paint_pdf between the drag and set_working_area, which compute pdf_rect
\* again, leaves the rectangle get_selection_rect returns as it was.
C29_SelectionSurvivesResize ==
    [][(last'.op \in {"resizeEvent", "_paint_pdf"} /\ pv.selection_rect # None
            /\ ~pv.is_selecting) =>
           get_selection_rect(pv') = get_selection_rect(pv)]_vars

-----------------------------------------------------------------------------
(* Properties of the saved entries *)

\* the entries added under a category and not deleted since, as last written
Journalled(category) ==
    {[id |-> i, title |-> journal[i].title, content |-> journal[i].content] :
        i \in {k \in DOMAIN journal : journal[k].category = category}}

\* C30: after any add_entry, update_entry and delete_entry calls, get_entries(c)
\* returns the entries added under category c and not deleted since, with their
\* last title and content, and so lists every entry add_entry returned an id
\* for under the category it was added with, whatever the category string.
C30_EntriesListed ==
    db.open => \A c \in CategoryInputs : get_entries(db, c) = Journalled(c)

=============================================================================
